---- MODULE Spec2Model ----
(***************************************************************************)
(* AI-Resume-Checker: the data store with its row-level policies           *)
(* (supabase migration), the analyze-resume edge function                  *)
(* (supabase/functions/analyze-resume/index.ts), the storage bucket and    *)
(* the resume upload of the dashboard (src/pages/Dashboard.tsx) and the    *)
(* chat page (src/pages/Index.tsx).                                        *)
(***************************************************************************)
EXTENDS Integers, Sequences, FiniteSets, TLC

(* ------------------------------ bounds -------------------------------- *)
\* rows ever inserted, over all tables (ids are never reused)
MaxRows == 3
\* the last value of the millisecond clock
MaxTime == 2
\* chat texts sent
MaxSends == 2
\* analyses started from the Analysis page
MaxRuns == 2

(* ----------------------------- identities ----------------------------- *)
Users == {"userA", "userB"}

\* SQL NULL / JS null for text values, and the "no row" id
NULL == "<null>"
NoId == 0
\* JS undefined (an absent property)
UNDEFINED == "<undefined>"

Tables == {"resumes", "job_descriptions", "analysis_reports"}
Commands == {"SELECT", "INSERT", "UPDATE", "DELETE"}

\* ids a caller may name, whether or not a row has them (a report needs a
\* resume and a job description, so the last id of a table has no partner)
ResumeIds == 1..(MaxRows - 1)
JobIds == 1..(MaxRows - 1)

\* the seven analysis columns of analysis_reports
AnalysisFields ==
    {"relevance_score", "missing_skills", "strengths", "weaknesses",
     "improvement_suggestions", "ai_summary", "interview_questions"}

VARIABLES
    resumes,            \* public.resumes: set of rows
    job_descriptions,   \* public.job_descriptions: set of rows
    analysis_reports,   \* public.analysis_reports: set of rows
    seq,                \* rows ever inserted per table (id generator)
    budget,             \* rows that may still be inserted
    lastOp,             \* the last statement a client issued under the policies
    pc,                 \* per request: position in the handler
    req,                \* per request: the HTTP request
    local,              \* per request: the handler's local variables
    response,           \* per request: the HTTP response
    effects,            \* per request: data-store and network calls issued
    objects,            \* storage.objects: set of rows
    lastObjectOp,       \* the last statement a client issued on storage.objects
    upload,             \* the dashboard's upload: signed-in user, state, position
    now,                \* Date.now()
    chat,               \* the chat page: messages, input, isThinking
    analysisPage,       \* the Analysis page: lists, selections, isAnalyzing, result
    site,               \* a protected page and the auth state it sees
    jobsPage            \* the job-descriptions page: form, isSaving

vars == <<resumes, job_descriptions, analysis_reports, seq, budget, lastOp,
          pc, req, local, response, effects,
          objects, lastObjectOp, upload, now, chat,
          analysisPage, site, jobsPage>>

dbVars == <<resumes, job_descriptions, analysis_reports, seq, budget>>
reqVars == <<pc, req, local, response, effects>>
pageVars == <<analysisPage, site, jobsPage>>
uploadVars == <<objects, lastObjectOp, upload, now, chat, pageVars>>

(* ------------------------- row-level policies ------------------------- *)
\* faulty variant: the policies of public.resumes with USING (true)
ResumesPolicyUsingTrue(cmd, uid, row) == cmd = "INSERT" => uid = row.user_id

\* USING / WITH CHECK expression of the policies on public.resumes
ResumesPolicy(cmd, uid, row) == uid = row.user_id

\* USING / WITH CHECK expression of the policies on public.job_descriptions
JobDescriptionsPolicy(cmd, uid, row) == uid = row.user_id

\* USING / WITH CHECK expression of the policies on public.analysis_reports
AnalysisReportsPolicy(cmd, uid, row) == uid = row.user_id

Policy(t, cmd, uid, row) ==
    CASE t = "resumes" -> ResumesPolicy(cmd, uid, row)
      [] t = "job_descriptions" -> JobDescriptionsPolicy(cmd, uid, row)
      [] t = "analysis_reports" -> AnalysisReportsPolicy(cmd, uid, row)

Rows(t) ==
    CASE t = "resumes" -> resumes
      [] t = "job_descriptions" -> job_descriptions
      [] t = "analysis_reports" -> analysis_reports

Owners(rows) == {r.user_id : r \in rows}

\* faulty variant: a table without the two REFERENCES constraints
ForeignKeysAbsent(row, rs, js) == TRUE

\* foreign keys of analysis_reports: both parents exist (checked without RLS)
ForeignKeysHold(row, rs, js) ==
    /\ \E r \in rs : r.id = row.resume_id
    /\ \E j \in js : j.id = row.job_description_id

\* faulty variant: the foreign keys without ON DELETE CASCADE or any check
CascadeNone(reports, rs, js) == reports

\* ON DELETE CASCADE: the reports that survive the parents that are left
Cascade(reports, rs, js) == {p \in reports : ForeignKeysHold(p, rs, js)}

(* ------------------------------ row values ---------------------------- *)
ResumeTexts == {NULL, "resume text"}
\* the optional columns of a job description: one left empty, one filled in
JobForms == {[company |-> NULL, requirements |-> "5 years of experience"]}

\* an analysis_reports row; a is the record of the seven analysis columns
ReportRow(id, uid, rid, jid, a) ==
    [id |-> id, user_id |-> uid, resume_id |-> rid, job_description_id |-> jid,
     relevance_score |-> a.relevance_score,
     missing_skills |-> a.missing_skills,
     strengths |-> a.strengths,
     weaknesses |-> a.weaknesses,
     improvement_suggestions |-> a.improvement_suggestions,
     ai_summary |-> a.ai_summary,
     interview_questions |-> a.interview_questions]

\* all seven analysis columns left to their default
NoAnalysis == [f \in AnalysisFields |-> NULL]

\* the rows a client may try to insert into table t (any owner, any parents)
NewRows(t, id) ==
    CASE t = "resumes" ->
           {[id |-> id, user_id |-> u, content_text |-> c] :
                u \in Users, c \in ResumeTexts}
      [] t = "job_descriptions" ->
           {[id |-> id, user_id |-> u, company |-> f.company,
             requirements |-> f.requirements] : u \in Users, f \in JobForms}
      [] t = "analysis_reports" ->
           {ReportRow(id, u, rid, jid, NoAnalysis) :
                u \in Users, rid \in 1..seq["resumes"],
                jid \in 1..seq["job_descriptions"]}

\* the column assignments a client may try in an UPDATE of table t
Patches(t) ==
    CASE t = "resumes" ->
           {[user_id |-> u] : u \in Users} \cup {[content_text |-> "resume text"]}
      [] t = "job_descriptions" ->
           {[user_id |-> u] : u \in Users} \cup {[requirements |-> "5 years of experience"]}
      [] t = "analysis_reports" ->
           {[user_id |-> u] : u \in Users}

Apply(row, patch) ==
    [c \in DOMAIN row |-> IF c \in DOMAIN patch THEN patch[c] ELSE row[c]]

(* ------------------- statements of an authenticated client ------------ *)
\* the tables after table t is replaced by rows; deleted parents cascade
SetTable(t, rows) ==
    /\ resumes' = IF t = "resumes" THEN rows ELSE resumes
    /\ job_descriptions' = IF t = "job_descriptions" THEN rows ELSE job_descriptions
    /\ analysis_reports' =
          Cascade(IF t = "analysis_reports" THEN rows ELSE analysis_reports,
                  resumes', job_descriptions')

\* the record of a statement, kept when the statements are audited
Audit(audited, a, cmd, t, id, rows, err) ==
    lastOp' = IF audited
              THEN [actor |-> a, cmd |-> cmd, table |-> t, id |-> id,
                    owners |-> Owners(rows), error |-> err]
              ELSE lastOp

\* select * from t, as user a
ClientSelect(audited, a, t) ==
    LET visible == {r \in Rows(t) : Policy(t, "SELECT", a, r)}
    IN  /\ Audit(audited, a, "SELECT", t, NoId, visible, FALSE)
        /\ UNCHANGED <<dbVars, reqVars, uploadVars>>

\* insert into t, as user a (a row under another user's id is rejected and
\* changes nothing: it is tried only where the statements are audited)
ClientInsert(audited, a, t) ==
    /\ budget > 0
    /\ \E row \in {n \in NewRows(t, seq[t] + 1) : audited \/ n.user_id = a} :
          LET ok == /\ Policy(t, "INSERT", a, row)
                    /\ t = "analysis_reports" =>
                           ForeignKeysHold(row, resumes, job_descriptions)
          IN  IF ok
              THEN /\ SetTable(t, Rows(t) \cup {row})
                   /\ seq' = [seq EXCEPT ![t] = @ + 1]
                   /\ budget' = budget - 1
                   /\ Audit(audited, a, "INSERT", t, row.id, {row}, FALSE)
              ELSE /\ UNCHANGED dbVars
                   /\ Audit(audited, a, "INSERT", t, NoId, {}, TRUE)
    /\ UNCHANGED <<reqVars, uploadVars>>

\* update t set patch where id = id, as user a (handing a row to another
\* user is rejected and changes nothing: tried only where audited)
ClientUpdate(audited, a, t, id) ==
    /\ \E patch \in {q \in Patches(t) : audited \/ "user_id" \notin DOMAIN q} :
          LET target == {r \in Rows(t) : /\ r.id = id
                                         /\ Policy(t, "SELECT", a, r)
                                         /\ Policy(t, "UPDATE", a, r)}
              new == {Apply(r, patch) : r \in target}
              ok == \A n \in new : Policy(t, "UPDATE", a, n)
          IN  IF ok
              THEN /\ SetTable(t, (Rows(t) \ target) \cup new)
                   /\ Audit(audited, a, "UPDATE", t, id, target \cup new, FALSE)
              ELSE /\ UNCHANGED <<resumes, job_descriptions, analysis_reports>>
                   /\ Audit(audited, a, "UPDATE", t, id, {}, TRUE)
    /\ UNCHANGED <<seq, budget, reqVars, uploadVars>>

\* delete from t where id = id, as user a
ClientDelete(audited, a, t, id) ==
    LET target == {r \in Rows(t) : /\ r.id = id
                                   /\ Policy(t, "SELECT", a, r)
                                   /\ Policy(t, "DELETE", a, r)}
    IN  /\ SetTable(t, Rows(t) \ target)
        /\ Audit(audited, a, "DELETE", t, id, target, FALSE)
        /\ UNCHANGED <<seq, budget, reqVars, uploadVars>>

ClientStep(audited) ==
    \E a \in Users, t \in Tables :
        \/ ClientSelect(audited, a, t)
        \/ ClientInsert(audited, a, t)
        \/ \E id \in 1..seq[t] : ClientUpdate(audited, a, t, id)
        \/ \E id \in 1..seq[t] : ClientDelete(audited, a, t, id)

(* ------------------------ analyze-resume: inputs ---------------------- *)
Requests == {"req1", "req2"}
\* the request slot used where requests come one after the other
Serial == {"req1"}

\* the session token the auth provider issued to each user
SessionToken == [u \in Users |-> IF u = "userA" THEN "jwt-userA" ELSE "jwt-userB"]
Tokens == {SessionToken[u] : u \in Users} \cup {"jwt-rejected"}

\* an Authorization header is a sequence of parts; absent or empty is <<>>
NoHeader == <<>>
Headers == {NoHeader} \cup {<<"Bearer ", t>> : t \in Tokens}

\* the credentials a principal can present: nobody holds another user's token
Presentable(who) ==
    {h \in Headers :
        h # NoHeader => \A u \in Users : h[Len(h)] = SessionToken[u] => u = who}

\* who sends a request: a user, with or without the session token
Principals == Users

\* a JSON body {resumeId, jobDescriptionId}; NoId is an absent or empty id
Bodies ==
    {[readable |-> FALSE, resumeId |-> NoId, jobDescriptionId |-> NoId]} \cup
    {[readable |-> TRUE, resumeId |-> r, jobDescriptionId |-> j] :
        r \in ResumeIds \cup {NoId}, j \in JobIds \cup {NoId}}

NoRow == [id |-> NoId]
\* the body before it is read
NoBody == [readable |-> FALSE, resumeId |-> NoId, jobDescriptionId |-> NoId]
NoRequest ==
    [method |-> NULL, principal |-> NULL, authorization |-> NoHeader,
     body |-> NoBody]
NoResponse ==
    [status |-> 0, json |-> FALSE, success |-> FALSE, error |-> NULL,
     analysis |-> NoRow]

(* ---------------------- analyze-resume: pure steps -------------------- *)
\* authHeader.replace('Bearer ', ''): drops the first 'Bearer ' part
ReplaceBearer(h) ==
    IF \E i \in 1..Len(h) : h[i] = "Bearer "
    THEN LET i == CHOOSE k \in 1..Len(h) :
                     /\ h[k] = "Bearer "
                     /\ \A m \in 1..(k - 1) : h[m] # "Bearer "
         IN  SubSeq(h, 1, i - 1) \o SubSeq(h, i + 1, Len(h))
    ELSE h

\* supabaseClient.auth.getUser(token)
GetUser(token) ==
    IF Len(token) = 1 /\ \E u \in Users : SessionToken[u] = token[1]
    THEN [user |-> CHOOSE u \in Users : SessionToken[u] = token[1], error |-> NULL]
    ELSE [user |-> NULL, error |-> "invalid JWT"]

\* faulty variant: the lookup without .eq('user_id', user.id)
OwnedRowsById(rows, id, uid) == {r \in rows : r.id = id}

\* from(t).select('*').eq('id', id).eq('user_id', uid) with the service-role key
OwnedRows(rows, id, uid) == {r \in rows : r.id = id /\ r.user_id = uid}

\* resume.content_text, or the placeholder when it is empty
ResumeText(resume) ==
    IF resume.content_text = NULL
    THEN "Resume content would be extracted from the uploaded file"
    ELSE resume.content_text

\* the values interpolated into analysisPrompt
AnalysisPrompt(resume, job) ==
    [resume |-> ResumeText(resume),
     company |-> IF job.company = NULL THEN "Not specified" ELSE job.company,
     requirements |->
        IF job.requirements = NULL THEN "Not specified" ELSE job.requirements]

\* faulty variant: a catch block that answers with the bare message
CatchPlainText(message) ==
    [status |-> IF message = "Unauthorized" THEN 401 ELSE 500,
     json |-> FALSE, success |-> FALSE, error |-> message, analysis |-> NoRow]

\* faulty variant: a catch block that forgets the status
CatchStatusOk(message) ==
    [status |-> 200, json |-> TRUE, success |-> FALSE,
     error |-> IF message = "" THEN "An unexpected error occurred" ELSE message,
     analysis |-> NoRow]

\* the catch block: the response for a thrown error with this message
Catch(message) ==
    [status |-> IF message = "Unauthorized" THEN 401 ELSE 500,
     json |-> TRUE,
     success |-> FALSE,
     error |-> IF message = "" THEN "An unexpected error occurred" ELSE message,
     analysis |-> NoRow]

(* -------------------- analyze-resume: the model's answer -------------- *)
\* message contents the external model may return
FullJson == "{all seven keys}"
PartialJson == "{relevance_score: 60}"
NullJson == "null"
NumberJson == "42"
ProseAnswer == "Here is the analysis: {all seven keys}"
Contents == {FullJson, PartialJson, NullJson, NumberJson, ProseAnswer}

\* what the chat-completion call can come to
ModelOutcomes ==
    {[kind |-> k, content |-> NULL] :
        k \in {"network error", "not ok", "body not json", "no choices"}} \cup
    {[kind |-> "completion", content |-> c] : c \in Contents}

\* a parsed JSON value: its type and, for an object, its properties
JsonValue(type, props) == [type |-> type, props |-> props]
NoProps == [f \in AnalysisFields |-> UNDEFINED]

\* JSON.parse(text): threw, or the value
JSONParse(text) ==
    CASE text = FullJson ->
           [threw |-> FALSE,
            value |-> JsonValue("object",
               [relevance_score |-> "82",
                missing_skills |-> "[Kubernetes]",
                strengths |-> "[Backend development]",
                weaknesses |-> "[No cloud certification]",
                improvement_suggestions |-> "Add measurable results",
                ai_summary |-> "Solid backend engineer",
                interview_questions |-> "[q1, q2, q3, q4, q5]"])]
      [] text = PartialJson ->
           [threw |-> FALSE,
            value |-> JsonValue("object",
               [NoProps EXCEPT !["relevance_score"] = "60"])]
      [] text = NullJson -> [threw |-> FALSE, value |-> JsonValue("null", NoProps)]
      [] text = NumberJson -> [threw |-> FALSE, value |-> JsonValue("number", NoProps)]
      [] OTHER -> [threw |-> TRUE, value |-> JsonValue("undefined", NoProps)]

\* the fallback analysis of the inner catch
FallbackAnalysis ==
    JsonValue("object",
       [relevance_score |-> "75",
        missing_skills |-> "[Project Management, Data Analysis]",
        strengths |-> "[Strong technical background, Good communication skills]",
        weaknesses |-> "[Limited industry experience, Missing key certifications]",
        improvement_suggestions |-> "Consider adding more specific metrics",
        ai_summary |-> "Experienced professional with strong technical skills",
        interview_questions |-> "[five fixed questions]"])

\* faulty variant: JSON.parse without the inner try/catch
ParseAnalysisStrict(text) == JSONParse(text).value

\* try { analysisResult = JSON.parse(analysisText) } catch { fallback }
ParseAnalysis(text) ==
    LET parsed == JSONParse(text)
    IN  IF parsed.threw THEN FallbackAnalysis ELSE parsed.value

\* reading a property of analysisResult throws on null
ReadThrows(value) == value.type \in {"null", "undefined"}

\* the seven columns of the insert; an undefined property is left out (NULL)
AnalysisColumns(value) ==
    [f \in AnalysisFields |->
        IF value.props[f] = UNDEFINED THEN NULL ELSE value.props[f]]

(* ---------------------- analyze-resume: the handler ------------------- *)
NoLocal ==
    [user |-> NULL, resume |-> NoRow, jobDescription |-> NoRow,
     analysisPrompt |-> [resume |-> NULL, company |-> NULL, requirements |-> NULL],
     openAIResponse |-> NULL, analysisText |-> NULL,
     analysisResult |-> JsonValue("undefined", NoProps)]

Call(call, t, id, owners, done) ==
    [call |-> call, table |-> t, id |-> id, owners |-> owners, done |-> done]

\* faulty variant: the failed credential check is not thrown, the handler goes on
ThrowUnlessUnauthorized(r, message) ==
    IF message = "Unauthorized"
    THEN /\ pc' = [pc EXCEPT ![r] = "body"]
         /\ UNCHANGED response
    ELSE /\ response' = [response EXCEPT ![r] = Catch(message)]
         /\ pc' = [pc EXCEPT ![r] = "done"]

\* a thrown error reaches the catch block, which answers
Throw(r, message) ==
    /\ response' = [response EXCEPT ![r] = Catch(message)]
    /\ pc' = [pc EXCEPT ![r] = "done"]

\* a request arrives: the CORS preflight, then the Authorization header
Receive(r) ==
    /\ pc[r] = "idle"
    /\ \E m \in {"OPTIONS", "POST"}, who \in Principals :
         \E h \in IF m = "OPTIONS" THEN {NoHeader} ELSE Presentable(who) :
            /\ req' = [req EXCEPT ![r] = [method |-> m, principal |-> who,
                                          authorization |-> h, body |-> NoBody]]
            /\ IF m = "OPTIONS"
               THEN /\ response' = [response EXCEPT ![r] =
                                       [NoResponse EXCEPT !.status = 200]]
                    /\ pc' = [pc EXCEPT ![r] = "done"]
               ELSE IF h = NoHeader
               THEN Throw(r, "No authorization header")
               ELSE /\ pc' = [pc EXCEPT ![r] = "getUser"]
                    /\ UNCHANGED response
    /\ UNCHANGED <<dbVars, lastOp, uploadVars, local, effects>>

\* await supabaseClient.auth.getUser(token)
VerifyUser(r) ==
    /\ pc[r] = "getUser"
    /\ LET got == GetUser(ReplaceBearer(req[r].authorization))
       IN  /\ effects' = [effects EXCEPT ![r] =
                             Append(@, Call("auth.getUser", NULL, NoId, {},
                                            got.error = NULL /\ got.user # NULL))]
           /\ IF got.error # NULL \/ got.user = NULL
              THEN Throw(r, "Unauthorized") /\ UNCHANGED local
              ELSE /\ local' = [local EXCEPT ![r].user = got.user]
                   /\ pc' = [pc EXCEPT ![r] = "body"]
                   /\ UNCHANGED response
    /\ UNCHANGED <<dbVars, lastOp, uploadVars, req>>

\* await req.json() reads the body the caller sent, then the two ids
ReadBody(r) ==
    /\ pc[r] = "body"
    /\ \E b \in Bodies :
         /\ req' = [req EXCEPT ![r].body = b]
         /\ IF ~b.readable
            THEN Throw(r, "Unexpected end of JSON input")
            ELSE IF b.resumeId = NoId \/ b.jobDescriptionId = NoId
            THEN Throw(r, "Resume ID and Job Description ID are required")
            ELSE /\ pc' = [pc EXCEPT ![r] = "resume"]
                 /\ UNCHANGED response
    /\ UNCHANGED <<dbVars, lastOp, uploadVars, local, effects>>

\* the resume of this id and this user; single() wants exactly one row
FetchResume(r) ==
    /\ pc[r] = "resume"
    /\ \E resumeError \in BOOLEAN :
         LET found == IF resumeError THEN {}
                      ELSE OwnedRows(resumes, req[r].body.resumeId, local[r].user)
         IN  /\ effects' = [effects EXCEPT ![r] =
                   Append(@, Call("select", "resumes", req[r].body.resumeId,
                                  Owners(found), TRUE))]
             /\ IF Cardinality(found) # 1
                THEN Throw(r, "Resume not found") /\ UNCHANGED local
                ELSE /\ local' = [local EXCEPT ![r].resume =
                                     CHOOSE x \in found : TRUE]
                     /\ pc' = [pc EXCEPT ![r] = "job"]
                     /\ UNCHANGED response
    /\ UNCHANGED <<dbVars, lastOp, uploadVars, req>>

\* the job description of this id and this user
FetchJobDescription(r) ==
    /\ pc[r] = "job"
    /\ \E jobError \in BOOLEAN :
         LET found == IF jobError THEN {}
                      ELSE OwnedRows(job_descriptions,
                                     req[r].body.jobDescriptionId, local[r].user)
         IN  /\ effects' = [effects EXCEPT ![r] =
                   Append(@, Call("select", "job_descriptions",
                                  req[r].body.jobDescriptionId, Owners(found), TRUE))]
             /\ IF Cardinality(found) # 1
                THEN Throw(r, "Job description not found") /\ UNCHANGED local
                ELSE /\ LET job == CHOOSE x \in found : TRUE
                        IN  local' = [local EXCEPT
                               ![r].jobDescription = job,
                               ![r].analysisPrompt =
                                   AnalysisPrompt(local[r].resume, job)]
                     /\ pc' = [pc EXCEPT ![r] = "model"]
                     /\ UNCHANGED response
    /\ UNCHANGED <<dbVars, lastOp, uploadVars, req>>

\* the prompt, the chat-completion call, and the parse of its answer
CallModel(r) ==
    /\ pc[r] = "model"
    /\ \E out \in ModelOutcomes :
         /\ effects' = [effects EXCEPT ![r] =
               Append(@, Call("fetch", NULL, NoId,
                              {local[r].resume.user_id,
                               local[r].jobDescription.user_id},
                              out.kind # "network error"))]
         /\ CASE out.kind = "network error" ->
                   /\ Throw(r, "error sending request")
                   /\ local' = [local EXCEPT ![r].openAIResponse = out.kind]
              [] out.kind = "not ok" ->
                   /\ Throw(r, "Failed to analyze resume with AI")
                   /\ local' = [local EXCEPT ![r].openAIResponse = out.kind]
              [] out.kind = "body not json" ->
                   /\ Throw(r, "Unexpected token in JSON")
                   /\ local' = [local EXCEPT ![r].openAIResponse = out.kind]
              [] out.kind = "no choices" ->
                   /\ Throw(r, "Cannot read properties of undefined")
                   /\ local' = [local EXCEPT ![r].openAIResponse = out.kind]
              [] out.kind = "completion" ->
                   /\ local' = [local EXCEPT
                         ![r].openAIResponse = out.kind,
                         ![r].analysisText = out.content,
                         ![r].analysisResult = ParseAnalysis(out.content)]
                   /\ pc' = [pc EXCEPT ![r] = "save"]
                   /\ UNCHANGED response
    /\ UNCHANGED <<dbVars, lastOp, uploadVars, req>>

\* faulty variant: an insert that keeps one report per user, resume and job
InsertReportOncePerPair(reports, row, failed) ==
    IF failed \/ \E p \in reports : /\ p.user_id = row.user_id
                                    /\ p.resume_id = row.resume_id
                                    /\ p.job_description_id = row.job_description_id
    THEN reports
    ELSE reports \cup {row}

\* faulty variant: an insert that stores the row although it reports an error
InsertReportAlways(reports, row, failed) == reports \cup {row}

\* the table after insert(row): the row is stored unless the insert fails
InsertReport(reports, row, failed) ==
    IF failed THEN reports ELSE reports \cup {row}

\* the insert of the report, and the answer
SaveAnalysis(r) ==
    /\ pc[r] = "save"
    /\ IF ReadThrows(local[r].analysisResult)
       THEN /\ Throw(r, "Cannot read properties of null")
            /\ UNCHANGED <<dbVars, effects>>
       ELSE \E saveError \in BOOLEAN :
         LET row == ReportRow(seq["analysis_reports"] + 1, local[r].user,
                              req[r].body.resumeId, req[r].body.jobDescriptionId,
                              AnalysisColumns(local[r].analysisResult))
             failed == saveError \/ ~ForeignKeysHold(row, resumes, job_descriptions)
             parents == {x \in resumes : x.id = row.resume_id} \cup
                        {x \in job_descriptions : x.id = row.job_description_id}
         IN  /\ failed \/ budget > 0
             /\ analysis_reports' = InsertReport(analysis_reports, row, failed)
             /\ seq' = IF failed THEN seq
                       ELSE [seq EXCEPT !["analysis_reports"] = @ + 1]
             /\ budget' = IF failed THEN budget ELSE budget - 1
             /\ effects' = [effects EXCEPT ![r] =
                   Append(@, Call("insert", "analysis_reports", row.id,
                                  Owners(parents), ~failed))]
             /\ IF failed
                THEN Throw(r, "Failed to save analysis")
                ELSE /\ response' = [response EXCEPT ![r] =
                           [status |-> 200, json |-> TRUE, success |-> TRUE,
                            error |-> NULL, analysis |-> row]]
                     /\ pc' = [pc EXCEPT ![r] = "done"]
             /\ UNCHANGED <<resumes, job_descriptions>>
    /\ UNCHANGED <<lastOp, uploadVars, req, local>>

\* the response is delivered; the handler keeps nothing between requests
Finish(r) ==
    /\ pc[r] = "done"
    /\ pc' = [pc EXCEPT ![r] = "idle"]
    /\ req' = [req EXCEPT ![r] = NoRequest]
    /\ local' = [local EXCEPT ![r] = NoLocal]
    /\ response' = [response EXCEPT ![r] = NoResponse]
    /\ effects' = [effects EXCEPT ![r] = <<>>]
    /\ UNCHANGED <<dbVars, lastOp, uploadVars>>

HandlerStep ==
    \E r \in Serial :
        \/ Receive(r)
        \/ VerifyUser(r)
        \/ ReadBody(r)
        \/ FetchResume(r)
        \/ FetchJobDescription(r)
        \/ CallModel(r)
        \/ SaveAnalysis(r)
        \/ Finish(r)

(* ---------------------- storage: the bucket 'resumes' ---------------- *)
\* An object name is its segments between '/', each segment its parts
\* between '.': userA/1.pdf is << <<"userA">>, <<"1", "pdf">> >>.
Buckets == {"resumes"}

\* the names a client may try: in no folder, or in a user's folder
ObjectNames ==
    {<< <<"cv", "pdf">> >>} \cup
    {<< <<u>>, <<ToString(t), "pdf">> >> : u \in Users, t \in 1..MaxTime}

Object(name) == [bucket_id |-> "resumes", name |-> name]

\* storage.foldername(name): the segments but the last
Foldername(name) == SubSeq(name, 1, Len(name) - 1)

\* faulty variant: policies that look at the bucket only
StoragePolicyBucketOnly(cmd, uid, obj) == obj.bucket_id = "resumes"

\* USING / WITH CHECK expression of the four policies on storage.objects;
\* the first element of an empty array is NULL, which equals nothing
StoragePolicy(cmd, uid, obj) ==
    /\ obj.bucket_id = "resumes"
    /\ Len(Foldername(obj.name)) > 0
    /\ <<uid>> = Foldername(obj.name)[1]

\* the record of a statement: the name asked for, the names it touched
ObjectAudit(a, cmd, name, objs, err) ==
    lastObjectOp' = [actor |-> a, cmd |-> cmd, name |-> name,
                     names |-> {o.name : o \in objs}, error |-> err]

\* list / download, as user a
ObjectSelect(a) ==
    LET visible == {o \in objects : StoragePolicy("SELECT", a, o)}
    IN  /\ ObjectAudit(a, "SELECT", <<>>, visible, FALSE)
        /\ UNCHANGED <<objects, upload, now, dbVars, lastOp, reqVars, chat, pageVars>>

\* upload without upsert, as user a: the name must be new
ObjectInsert(a, name) ==
    LET ok == StoragePolicy("INSERT", a, Object(name)) /\ Object(name) \notin objects
    IN  /\ objects' = IF ok THEN objects \cup {Object(name)} ELSE objects
        /\ ObjectAudit(a, "INSERT", name, IF ok THEN {Object(name)} ELSE {}, ~ok)
        /\ UNCHANGED <<upload, now, dbVars, lastOp, reqVars, chat, pageVars>>

\* move name to to, as user a; USING also checks the row as it becomes
ObjectUpdate(a, name, to) ==
    LET target == {o \in objects : /\ o.name = name
                                   /\ StoragePolicy("SELECT", a, o)
                                   /\ StoragePolicy("UPDATE", a, o)}
        new == {Object(to) : o \in target}
        ok == /\ \A n \in new : StoragePolicy("UPDATE", a, n)
              /\ new \cap (objects \ target) = {}
    IN  /\ objects' = IF ok THEN (objects \ target) \cup new ELSE objects
        /\ ObjectAudit(a, "UPDATE", name, IF ok THEN target \cup new ELSE {}, ~ok)
        /\ UNCHANGED <<upload, now, dbVars, lastOp, reqVars, chat, pageVars>>

\* remove name, as user a
ObjectDelete(a, name) ==
    LET target == {o \in objects : /\ o.name = name
                                   /\ StoragePolicy("SELECT", a, o)
                                   /\ StoragePolicy("DELETE", a, o)}
    IN  /\ objects' = objects \ target
        /\ ObjectAudit(a, "DELETE", name, target, FALSE)
        /\ UNCHANGED <<upload, now, dbVars, lastOp, reqVars, chat, pageVars>>

ObjectStep ==
    \E a \in Users :
        \/ ObjectSelect(a)
        \/ \E name \in ObjectNames : ObjectInsert(a, name)
        \/ \E name, to \in ObjectNames : ObjectUpdate(a, name, to)
        \/ \E name \in ObjectNames : ObjectDelete(a, name)

(* ------------------- Dashboard: handleFileUpload ---------------------- *)
PDF == "application/pdf"
DOCX == "application/vnd.openxmlformats-officedocument.wordprocessingml.document"
allowedTypes == {PDF, DOCX}

\* faulty variant: a cap that already rejects a file of exactly 5MB
TooLargeFrom5MB(file) == file.size >= 5 * 1024 * 1024

\* file.size > 5 * 1024 * 1024
TooLarge(file) == file.size > 5 * 1024 * 1024

\* faulty variant: any type of file is let through
AllowedAnyType(file) == TRUE

\* allowedTypes.includes(file.type)
Allowed(file) == file.type \in allowedTypes

\* event.target.files is empty
NoFile == [type |-> NULL, size |-> 0, name |-> <<>>]

\* the files a user may pick; a file name is its parts between '.'
Files ==
    {[type |-> PDF, size |-> 5 * 1024 * 1024, name |-> <<"cv", "pdf">>],
     [type |-> PDF, size |-> 5 * 1024 * 1024 + 1, name |-> <<"cv", "pdf">>],
     [type |-> DOCX, size |-> 1, name |-> <<"my", "cv", "docx">>],
     [type |-> "image/png", size |-> 1, name |-> <<"photo", "png">>]}

\* file.name.split('.').pop()
FileExt(name) == name[Len(name)]

\* `${user.id}/${Date.now()}.${fileExt}`
FileName(uid, time, fileExt) == << <<uid>>, <<ToString(time), fileExt>> >>

\* file.name.replace(/\.[^/.]+$/, ""): drops a last, non-empty extension
RemoveExtension(name) ==
    IF Len(name) > 1 /\ name[Len(name)] # ""
    THEN SubSeq(name, 1, Len(name) - 1)
    ELSE name

\* faulty variant: the row keeps the name of the file and not its path
ResumeRowOfFileName(id, uid, file, fileName) ==
    [id |-> id, user_id |-> uid, content_text |-> NULL,
     title |-> RemoveExtension(file.name), file_name |-> file.name,
     file_path |-> <<file.name>>, file_size |-> file.size]

\* the row of the insert into resumes; content_text is left to its default
ResumeRow(id, uid, file, fileName) ==
    [id |-> id, user_id |-> uid, content_text |-> NULL,
     title |-> RemoveExtension(file.name), file_name |-> file.name,
     file_path |-> fileName, file_size |-> file.size]

\* the dashboard before any upload, with user signed in (or NULL)
NoUpload(user) ==
    [user |-> user, pc |-> "idle", file |-> NoFile, fileName |-> <<>>,
     isUploading |-> FALSE, toast |-> NULL, calls |-> <<>>]

\* faulty variant: a finally block that leaves the flag set
FinallyNothing(u) == [u EXCEPT !.pc = "idle"]

\* finally { setIsUploading(false) }
Finally(u) == [u EXCEPT !.isUploading = FALSE, !.pc = "idle"]

\* catch: the destructive toast
CatchUpload(u) == [u EXCEPT !.toast = "Upload Failed"]

\* a file is picked: the checks, then the upload call is issued
HandleFileUpload ==
    /\ upload.pc = "idle"
    /\ \E file \in Files \cup {NoFile} :
         LET u == [upload EXCEPT !.file = file, !.fileName = <<>>, !.calls = <<>>]
         IN  upload' =
               IF file = NoFile \/ upload.user = NULL THEN u
               ELSE IF ~Allowed(file) THEN [u EXCEPT !.toast = "Invalid File Type"]
               ELSE IF TooLarge(file) THEN [u EXCEPT !.toast = "File Too Large"]
               ELSE [u EXCEPT !.isUploading = TRUE,
                              !.fileName = FileName(upload.user, now,
                                                    FileExt(file.name)),
                              !.calls = <<"storage.upload">>,
                              !.pc = "upload"]
    /\ UNCHANGED <<objects, lastObjectOp, now, dbVars, lastOp, reqVars, chat, pageVars>>

\* the upload returns; without an error the insert into resumes is issued
UploadReturns ==
    /\ upload.pc = "upload"
    /\ \E uploadError \in BOOLEAN :
         LET obj == Object(upload.fileName)
             failed == \/ uploadError
                       \/ ~StoragePolicy("INSERT", upload.user, obj)
                       \/ obj \in objects
         IN  /\ objects' = IF failed THEN objects ELSE objects \cup {obj}
             /\ upload' = IF failed
                          THEN Finally(CatchUpload(upload))
                          ELSE [upload EXCEPT !.calls = Append(@, "from.insert"),
                                              !.pc = "insert"]
    /\ UNCHANGED <<lastObjectOp, now, dbVars, lastOp, reqVars, chat, pageVars>>

\* the insert returns: the success toast and loadResumes(), or the catch
InsertReturns ==
    /\ upload.pc = "insert"
    /\ \E dbError \in BOOLEAN :
         LET row == ResumeRow(seq["resumes"] + 1, upload.user, upload.file,
                              upload.fileName)
             failed == dbError \/ ~ResumesPolicy("INSERT", upload.user, row)
         IN  /\ failed \/ budget > 0
             /\ resumes' = IF failed THEN resumes ELSE resumes \cup {row}
             /\ seq' = IF failed THEN seq ELSE [seq EXCEPT !["resumes"] = @ + 1]
             /\ budget' = IF failed THEN budget ELSE budget - 1
             /\ upload' = IF failed
                          THEN Finally(CatchUpload(upload))
                          ELSE Finally([upload EXCEPT
                                           !.toast = "Success",
                                           !.calls = Append(@, "from.select")])
    /\ UNCHANGED <<objects, lastObjectOp, now, job_descriptions,
                   analysis_reports, lastOp, reqVars, chat, pageVars>>

\* another tab of the same user picks a file its checks let through, makes
\* the path and uploads (without upsert), all within this millisecond
OtherTabUpload ==
    /\ upload.user # NULL
    /\ \E file \in {f \in Files : Allowed(f) /\ ~TooLarge(f)} :
          ObjectInsert(upload.user,
                       FileName(upload.user, now, FileExt(file.name)))

\* a millisecond passes
Tick ==
    /\ now < MaxTime
    /\ now' = now + 1
    /\ UNCHANGED <<objects, lastObjectOp, upload, dbVars, lastOp, reqVars, chat, pageVars>>

(* ----------------------------- Chat page ----------------------------- *)
\* A text is the sequence of its characters.
UpperCase ==
    <<"A", "B", "C", "D", "E", "F", "G", "H", "I", "J", "K", "L", "M",
      "N", "O", "P", "Q", "R", "S", "T", "U", "V", "W", "X", "Y", "Z">>
LowerCase ==
    <<"a", "b", "c", "d", "e", "f", "g", "h", "i", "j", "k", "l", "m",
      "n", "o", "p", "q", "r", "s", "t", "u", "v", "w", "x", "y", "z">>

\* text.toLowerCase()
ToLowerCase(text) ==
    [i \in 1..Len(text) |->
        IF \E k \in 1..Len(UpperCase) : UpperCase[k] = text[i]
        THEN LowerCase[CHOOSE k \in 1..Len(UpperCase) : UpperCase[k] = text[i]]
        ELSE text[i]]

\* t.includes(word)
Includes(t, word) ==
    \E i \in 0..(Len(t) - Len(word)) : SubSeq(t, i + 1, i + Len(word)) = word

\* faulty variant: the input is sent as it was typed
TrimNothing(text) == text

\* input.trim()
Trim(text) ==
    LET ink == {i \in 1..Len(text) : text[i] # " "}
    IN  IF ink = {} THEN <<>>
        ELSE SubSeq(text, CHOOSE i \in ink : \A j \in ink : i <= j,
                          CHOOSE i \in ink : \A j \in ink : i >= j)

\* the keywords
Ats == <<"a", "t", "s">>
Keywords == <<"k", "e", "y", "w", "o", "r", "d", "s">>
Summary == <<"s", "u", "m", "m", "a", "r", "y">>
Objective == <<"o", "b", "j", "e", "c", "t", "i", "v", "e">>
Quantify == <<"q", "u", "a", "n", "t", "i", "f", "y">>
Metrics == <<"m", "e", "t", "r", "i", "c", "s">>
Format == <<"f", "o", "r", "m", "a", "t">>
Template == <<"t", "e", "m", "p", "l", "a", "t", "e">>

\* the canned answers, by their first words
AtsAnswer == "Include exact keywords from the job description ..."
SummaryAnswer == "Write a 2-3 line summary tailored to the role ..."
MetricsAnswer == "Quantify impact using metrics ..."
FormatAnswer == "Use a clean reverse-chronological format ..."
DefaultAnswer == "Tailor your resume to the job ..."
WelcomeText == "Hi! I'm your resume optimization assistant. ..."

\* faulty variant: the keywords are looked for in the text as it was typed
mockAssistantCaseSensitive(text) ==
    IF Includes(text, Ats) \/ Includes(text, Keywords) THEN AtsAnswer
    ELSE IF Includes(text, Summary) \/ Includes(text, Objective) THEN SummaryAnswer
    ELSE IF Includes(text, Quantify) \/ Includes(text, Metrics) THEN MetricsAnswer
    ELSE IF Includes(text, Format) \/ Includes(text, Template) THEN FormatAnswer
    ELSE DefaultAnswer

mockAssistant(text) ==
    LET t == ToLowerCase(text)
    IN  IF Includes(t, Ats) \/ Includes(t, Keywords) THEN AtsAnswer
        ELSE IF Includes(t, Summary) \/ Includes(t, Objective) THEN SummaryAnswer
        ELSE IF Includes(t, Quantify) \/ Includes(t, Metrics) THEN MetricsAnswer
        ELSE IF Includes(t, Format) \/ Includes(t, Template) THEN FormatAnswer
        ELSE DefaultAnswer

\* what a user may type
Texts ==
    {<<>>,
     <<" ", " ">>,
     <<" ", "A", "T", "S", " ">>,
     <<"f", "o", "r", "m", "a", "t", "s">>,
     <<"s", "u", "m", "m", "a", "r", "y", " ", "m", "e", "t", "r", "i", "c", "s">>,
     <<"M", "e", "t", "r", "i", "c", "s">>,
     <<"t", "e", "m", "p", "l", "a", "t", "e">>,
     <<"h", "i">>,
     <<"K", "e", "y", "w", "o", "r", "d", "s">>,
     <<"o", "b", "j", "e", "c", "t", "i", "v", "e">>,
     <<"Q", "u", "a", "n", "t", "i", "f", "y">>,
     <<"f", "o", "r", "m", "a", "t">>}

Message(id, role, content) == [id |-> id, role |-> role, content |-> content]

\* the page as it is mounted
NoChat ==
    [messages |-> <<Message("welcome", "assistant", WelcomeText)>>,
     input |-> <<>>, isThinking |-> FALSE]

\* the user edits the input
SetInput ==
    /\ \E text \in Texts : chat' = [chat EXCEPT !.input = text]
    /\ UNCHANGED <<objects, lastObjectOp, upload, now, dbVars, lastOp, reqVars, pageVars>>

\* the form is submitted; an id is a fresh one (crypto.randomUUID())
send ==
    /\ Len(chat.messages) < 1 + 2 * MaxSends
    /\ LET text == Trim(chat.input)
           userMsg == Message(ToString(Len(chat.messages) + 1), "user", text)
           botMsg == Message(ToString(Len(chat.messages) + 2), "assistant",
                             mockAssistant(text))
       IN  chat' = IF text = <<>> THEN chat
                   ELSE [chat EXCEPT !.input = <<>>,
                                     !.messages = @ \o <<userMsg, botMsg>>,
                                     !.isThinking = FALSE]
    /\ UNCHANGED <<objects, lastObjectOp, upload, now, dbVars, lastOp, reqVars, pageVars>>

(* ------------------------- Analysis page ------------------------------ *)
\* what supabase.functions.invoke can come to
InvokeOutcomes == {"analysis", "error", "no analysis", "throws"}

\* the page as it is mounted; result null is NoRow
NoAnalysisPage ==
    [resumes |-> {}, jobs |-> {}, selectedResume |-> "", selectedJob |-> "",
     isAnalyzing |-> FALSE, result |-> NoRow, toast |-> NULL,
     invoked |-> 0, outstanding |-> 0]

\* loadResumes() and loadJobs() return: the lists of the two selects
SetLists ==
    /\ \E rs \in SUBSET {"1", "2"}, js \in SUBSET {"1"} :
          analysisPage' = [analysisPage EXCEPT !.resumes = rs, !.jobs = js]
    /\ UNCHANGED <<dbVars, lastOp, reqVars, objects, lastObjectOp, upload, now,
                   chat, site, jobsPage>>

\* a resume is picked in the select
SetSelectedResume ==
    /\ \E id \in analysisPage.resumes :
          analysisPage' = [analysisPage EXCEPT !.selectedResume = id]
    /\ UNCHANGED <<dbVars, lastOp, reqVars, objects, lastObjectOp, upload, now,
                   chat, site, jobsPage>>

\* a job description is picked in the select
SetSelectedJob ==
    /\ \E id \in analysisPage.jobs :
          analysisPage' = [analysisPage EXCEPT !.selectedJob = id]
    /\ UNCHANGED <<dbVars, lastOp, reqVars, objects, lastObjectOp, upload, now,
                   chat, site, jobsPage>>

\* faulty variant: a button that stays enabled during an analysis
StartDisabledByListsOnly(p) == p.resumes = {} \/ p.jobs = {}

\* disabled={isAnalyzing || resumes.length===0 || jobs.length===0}
StartDisabled(p) == p.isAnalyzing \/ p.resumes = {} \/ p.jobs = {}

\* faulty variant: a guard that looks at the resume only
UnselectedResumeOnly(p) == p.selectedResume = ""

\* !selectedResume || !selectedJob
Unselected(p) == p.selectedResume = "" \/ p.selectedJob = ""

\* faulty variant: the run starts with the result of the run before
StartedKeepingResult(p) ==
    [p EXCEPT !.isAnalyzing = TRUE,
              !.invoked = @ + 1, !.outstanding = @ + 1]

\* setIsAnalyzing(true); setResult(null); and the endpoint is invoked
Started(p) ==
    [p EXCEPT !.isAnalyzing = TRUE, !.result = NoRow,
              !.invoked = @ + 1, !.outstanding = @ + 1]

\* a click on Start Analysis
startAnalysis ==
    /\ ~StartDisabled(analysisPage)
    /\ analysisPage.invoked < MaxRuns
    /\ analysisPage' =
          IF Unselected(analysisPage)
          THEN [analysisPage EXCEPT !.toast = "Select items"]
          ELSE Started(analysisPage)
    /\ UNCHANGED <<dbVars, lastOp, reqVars, objects, lastObjectOp, upload, now,
                   chat, site, jobsPage>>

\* the invocation returns; the report of a run has the run's number as id
InvokeReturns ==
    /\ analysisPage.outstanding > 0
    /\ \E outcome \in InvokeOutcomes :
          LET p == [analysisPage EXCEPT !.outstanding = @ - 1]
              settled ==
                CASE outcome = "analysis" ->
                       [p EXCEPT !.result = [id |-> p.invoked],
                                 !.toast = "Analysis complete"]
                  [] outcome = "no analysis" ->
                       [p EXCEPT !.toast = "Unexpected response"]
                  [] OTHER -> [p EXCEPT !.toast = "Analysis failed"]
          IN  analysisPage' = [settled EXCEPT !.isAnalyzing = FALSE]
    /\ UNCHANGED <<dbVars, lastOp, reqVars, objects, lastObjectOp, upload, now,
                   chat, site, jobsPage>>

(* ------------------------- protected pages ---------------------------- *)
Pages == {"Dashboard", "Analysis", "Reports", "JobDescriptions", "Chat"}

\* the tables a page loads rows from
Loads(page) ==
    CASE page = "Dashboard" -> {"resumes", "job_descriptions"}
      [] page = "Analysis" -> {"resumes", "job_descriptions"}
      [] page = "Reports" -> {"analysis_reports"}
      [] page = "JobDescriptions" -> {"job_descriptions"}
      [] page = "Chat" -> {}

\* faulty variant: rows are loaded whoever is signed in, or nobody
RowLoadsAlways(page, user) == Loads(page)

\* useEffect(() => { if (user) load...() }, [user])
RowLoads(page, user) == IF user # NULL THEN Loads(page) ELSE {}

\* what the page returns: the Dashboard has a spinner while auth is loading
Content(page, loading, user) ==
    IF page = "Dashboard"
    THEN IF loading THEN "spinner" ELSE IF user = NULL THEN "null" ELSE "page"
    ELSE IF loading \/ user = NULL THEN "null" ELSE "page"

\* useEffect(() => { if (!loading && !user) navigate("/auth") }, ...)
Route(page, loading, user) == IF ~loading /\ user = NULL THEN "/auth" ELSE page

\* no page is mounted
NoSite ==
    [page |-> NULL, loading |-> TRUE, user |-> NULL, route |-> NULL,
     content |-> "null", queries |-> {}, issued |-> {}, pending |-> {},
     loaded |-> {}, toast |-> NULL]

\* a render with these values of useAuth(), and the effects after it;
\* queries are the tables queried by these effects, issued all since the
\* mount, pending those not yet answered
Rendered(prev, page, loading, user, loadEffect) ==
    LET queries == IF loadEffect THEN RowLoads(page, user) ELSE {}
    IN  [prev EXCEPT !.page = page, !.loading = loading, !.user = user,
                     !.route = Route(page, loading, user),
                     !.content = Content(page, loading, user),
                     !.queries = queries,
                     !.issued = @ \cup queries,
                     !.pending = @ \cup queries]

\* the router mounts a page
Mount ==
    /\ \E page \in Pages, loading \in BOOLEAN, user \in Users \cup {NULL} :
          site' = Rendered(NoSite, page, loading, user, TRUE)
    /\ UNCHANGED <<dbVars, lastOp, reqVars, objects, lastObjectOp, upload, now,
                   chat, analysisPage, jobsPage>>

\* useAuth() changes under a mounted page; the load effect depends on user
AuthChange ==
    /\ site.page # NULL
    /\ site.route = site.page
    /\ \E loading \in BOOLEAN, user \in Users \cup {NULL} :
          site' = Rendered(site, site.page, loading, user, user # site.user)
    /\ UNCHANGED <<dbVars, lastOp, reqVars, objects, lastObjectOp, upload, now,
                   chat, analysisPage, jobsPage>>

\* a load returns: the rows are set, or the error toast is shown
LoadReturns ==
    /\ site.page # NULL
    /\ site.route = site.page
    /\ \E t \in site.pending, error \in BOOLEAN :
          site' = IF error
                  THEN [site EXCEPT !.pending = @ \ {t}, !.queries = {},
                                    !.toast = "Error"]
                  ELSE [site EXCEPT !.pending = @ \ {t}, !.queries = {},
                                    !.loaded = @ \cup {t}]
    /\ UNCHANGED <<dbVars, lastOp, reqVars, objects, lastObjectOp, upload, now,
                   chat, analysisPage, jobsPage>>

(* --------------------- JobDescriptions page: saveItem ----------------- *)
\* the form after setForm({ title: "", company: "", description: "", ... })
EmptyForm == [title |-> "", company |-> "", description |-> "", requirements |-> ""]

\* what a user may have typed into the form
Forms ==
    {EmptyForm,
     [EmptyForm EXCEPT !.title = "Engineer"],
     [EmptyForm EXCEPT !.description = "Build things", !.company = "Acme"],
     [EmptyForm EXCEPT !.title = "Engineer", !.description = "Build things"],
     [title |-> "Engineer", company |-> "Acme", description |-> "Build things",
      requirements |-> "5 years"]}

\* text || null
OrNull(text) == IF text = "" THEN NULL ELSE text

\* faulty variant: only the title is required
MissingTitleOnly(form) == form.title = ""

\* !form.title || !form.description
MissingFields(form) == form.title = "" \/ form.description = ""

\* the row of the insert into job_descriptions
JobRow(id, uid, form) ==
    [id |-> id, user_id |-> uid, title |-> form.title,
     company |-> OrNull(form.company), description |-> form.description,
     requirements |-> OrNull(form.requirements)]

\* the page as it is mounted, with user signed in (or NULL)
NoJobsPage(user) ==
    [user |-> user, form |-> EmptyForm, submitted |-> EmptyForm,
     isSaving |-> FALSE, toast |-> NULL, calls |-> <<>>, pc |-> "idle"]

\* the user edits the form
SetForm ==
    /\ \E form \in Forms : jobsPage' = [jobsPage EXCEPT !.form = form]
    /\ UNCHANGED <<dbVars, lastOp, reqVars, objects, lastObjectOp, upload, now,
                   chat, analysisPage, site>>

\* the form is submitted (the button is disabled while isSaving): the checks,
\* then the insert is issued with the values of the form at that moment
saveItem ==
    /\ jobsPage.pc = "idle"
    /\ ~jobsPage.isSaving
    /\ LET p == [jobsPage EXCEPT !.calls = <<>>]
       IN  jobsPage' =
             IF jobsPage.user = NULL THEN p
             ELSE IF MissingFields(jobsPage.form)
             THEN [p EXCEPT !.toast = "Missing fields"]
             ELSE [p EXCEPT !.isSaving = TRUE, !.submitted = jobsPage.form,
                            !.calls = <<"from.insert">>, !.pc = "insert"]
    /\ UNCHANGED <<dbVars, lastOp, reqVars, objects, lastObjectOp, upload, now,
                   chat, analysisPage, site>>

\* the insert returns: toast, reset and loadItems(), or the catch; then finally
SaveItemReturns ==
    /\ jobsPage.pc = "insert"
    /\ \E error \in BOOLEAN :
         LET row == JobRow(seq["job_descriptions"] + 1, jobsPage.user,
                           jobsPage.submitted)
             failed == error \/ ~JobDescriptionsPolicy("INSERT", jobsPage.user, row)
         IN  /\ failed \/ budget > 0
             /\ job_descriptions' =
                   IF failed THEN job_descriptions ELSE job_descriptions \cup {row}
             /\ seq' = IF failed THEN seq
                       ELSE [seq EXCEPT !["job_descriptions"] = @ + 1]
             /\ budget' = IF failed THEN budget ELSE budget - 1
             /\ jobsPage' =
                   IF failed
                   THEN [jobsPage EXCEPT !.toast = "Save failed",
                                         !.isSaving = FALSE, !.pc = "idle"]
                   ELSE [jobsPage EXCEPT !.toast = "Saved", !.form = EmptyForm,
                                         !.calls = Append(@, "from.select"),
                                         !.isSaving = FALSE, !.pc = "idle"]
    /\ UNCHANGED <<resumes, analysis_reports, lastOp, reqVars, objects,
                   lastObjectOp, upload, now, chat, analysisPage, site>>

(* --------------------------- specifications --------------------------- *)
NoOp ==
    [actor |-> NULL, cmd |-> NULL, table |-> NULL, id |-> NoId,
     owners |-> {}, error |-> FALSE]
NoObjectOp == [actor |-> NULL, cmd |-> NULL, name |-> <<>>, names |-> {}, error |-> FALSE]

\* the pages as they are mounted
PagesInit ==
    /\ analysisPage = NoAnalysisPage
    /\ site = NoSite
    /\ jobsPage = NoJobsPage(NULL)

\* the bucket is empty, nobody is signed in on the dashboard
StorageInit ==
    /\ objects = {}
    /\ lastObjectOp = NoObjectOp
    /\ upload = NoUpload(NULL)
    /\ now = 1
    /\ chat = NoChat
    /\ PagesInit

Init ==
    /\ resumes = {}
    /\ job_descriptions = {}
    /\ analysis_reports = {}
    /\ seq = [t \in Tables |-> 0]
    /\ budget = MaxRows
    /\ lastOp = NoOp
    /\ pc = [r \in Requests |-> "idle"]
    /\ req = [r \in Requests |-> NoRequest]
    /\ local = [r \in Requests |-> NoLocal]
    /\ response = [r \in Requests |-> NoResponse]
    /\ effects = [r \in Requests |-> <<>>]
    /\ StorageInit

\* clients acting on the data store under the row-level policies
NextRLS == ClientStep(TRUE)
SpecRLS == Init /\ [][NextRLS]_vars

\* the analysis endpoint, with clients acting on the data store meanwhile
Next == ClientStep(FALSE) \/ HandlerStep
Spec == Init /\ [][Next]_vars

\* two requests in flight at once, each already past its Authorization
\* header, over a store that holds one resume and one job description
ConcInit ==
    /\ resumes = {[id |-> 1, user_id |-> "userA", content_text |-> "resume text"]}
    /\ \E f \in JobForms :
          job_descriptions = {[id |-> 1, user_id |-> "userA", company |-> f.company,
                               requirements |-> f.requirements]}
    /\ analysis_reports = {}
    /\ seq = [t \in Tables |-> IF t = "analysis_reports" THEN 0 ELSE 1]
    /\ budget = Cardinality(Requests)
    /\ lastOp = NoOp
    /\ pc = [r \in Requests |-> "getUser"]
    /\ \E who \in [Requests -> Principals] :
          req = [r \in Requests |->
                    [method |-> "POST", principal |-> who[r],
                     authorization |-> <<"Bearer ", SessionToken[who[r]]>>,
                     body |-> NoBody]]
    /\ local = [r \in Requests |-> NoLocal]
    /\ response = [r \in Requests |-> NoResponse]
    /\ effects = [r \in Requests |-> <<>>]
    /\ StorageInit

ConcNext ==
    \E r \in Requests :
        \/ VerifyUser(r)
        \/ ReadBody(r)
        \/ FetchResume(r)
        \/ FetchJobDescription(r)
        \/ CallModel(r)
        \/ SaveAnalysis(r)

SpecConc == ConcInit /\ [][ConcNext]_vars

\* clients acting on the bucket under the storage policies
NextStorage == ObjectStep
SpecStorage == Init /\ [][NextStorage]_vars

\* the dashboard of a signed-in (or signed-out) user, uploading resumes
UploadInit ==
    /\ resumes = {}
    /\ job_descriptions = {}
    /\ analysis_reports = {}
    /\ seq = [t \in Tables |-> 0]
    /\ budget = MaxRows
    /\ lastOp = NoOp
    /\ pc = [r \in Requests |-> "idle"]
    /\ req = [r \in Requests |-> NoRequest]
    /\ local = [r \in Requests |-> NoLocal]
    /\ response = [r \in Requests |-> NoResponse]
    /\ effects = [r \in Requests |-> <<>>]
    /\ objects = {}
    /\ lastObjectOp = NoObjectOp
    /\ \E u \in Users \cup {NULL} : upload = NoUpload(u)
    /\ now = 1
    /\ chat = NoChat
    /\ PagesInit

NextUpload == HandleFileUpload \/ UploadReturns \/ InsertReturns \/ Tick
SpecUpload == UploadInit /\ [][NextUpload]_vars

\* the chat page
NextChat == SetInput \/ send
SpecChat == Init /\ [][NextChat]_vars

\* the Analysis page of a signed-in user
NextAnalysis ==
    SetLists \/ SetSelectedResume \/ SetSelectedJob \/ startAnalysis \/ InvokeReturns
SpecAnalysis == Init /\ [][NextAnalysis]_vars

\* a protected page under a changing auth state
NextSite == Mount \/ AuthChange \/ LoadReturns
SpecSite == Init /\ [][NextSite]_vars

\* the job-descriptions page of a signed-in (or signed-out) user
JobsInit ==
    /\ resumes = {}
    /\ job_descriptions = {}
    /\ analysis_reports = {}
    /\ seq = [t \in Tables |-> 0]
    /\ budget = MaxRows
    /\ lastOp = NoOp
    /\ pc = [r \in Requests |-> "idle"]
    /\ req = [r \in Requests |-> NoRequest]
    /\ local = [r \in Requests |-> NoLocal]
    /\ response = [r \in Requests |-> NoResponse]
    /\ effects = [r \in Requests |-> <<>>]
    /\ objects = {}
    /\ lastObjectOp = NoObjectOp
    /\ upload = NoUpload(NULL)
    /\ now = 1
    /\ chat = NoChat
    /\ analysisPage = NoAnalysisPage
    /\ site = NoSite
    /\ \E u \in Users \cup {NULL} : jobsPage = NoJobsPage(u)

NextJobs == SetForm \/ saveItem \/ SaveItemReturns
SpecJobs == JobsInit /\ [][NextJobs]_vars

\* the dashboard in two tabs of one user
NextTabs ==
    HandleFileUpload \/ UploadReturns \/ InsertReturns \/ Tick \/ OtherTabUpload
SpecTabs == UploadInit /\ [][NextTabs]_vars

(* ------------------------------- claims ------------------------------- *)
Done(r) == pc[r] = "done" /\ req[r].method = "POST"
Failed(r) == Done(r) /\ ~response[r].success
Succeeded(r) == Done(r) /\ response[r].success

\* the caller showed the token the auth provider issued to them
Authenticated(r) ==
    req[r].authorization = <<"Bearer ", SessionToken[req[r].principal]>>

\* the seven analysis columns of a report row
AnalysisOf(row) == [f \in AnalysisFields |-> row[f]]

C2_OnlyCallersRows ==
    \A r \in Requests :
        /\ \A i \in 1..Len(effects[r]) :
              effects[r][i].call \in {"select", "fetch", "insert"} =>
                  effects[r][i].owners \subseteq {req[r].principal}
        /\ local[r].resume # NoRow =>
              local[r].resume.user_id = req[r].principal
        /\ local[r].jobDescription # NoRow =>
              local[r].jobDescription.user_id = req[r].principal

\* the caller named another user's resume and the lookup returned nothing
C2_Witness ==
    \E r \in Requests :
        /\ Done(r) /\ Authenticated(r)
        /\ response[r].error = "Resume not found"
        /\ \E x \in resumes :
              x.id = req[r].body.resumeId /\ x.user_id # req[r].principal
        /\ effects[r][Len(effects[r])].call = "select"
        /\ effects[r][Len(effects[r])].owners = {}

\* C3 (as claimed): a request without a valid credential is answered
\* with 401 and success false.
C3_NoCredentialIs401 ==
    \A r \in Requests :
        (Done(r) /\ ~Authenticated(r)) =>
            (response[r].status = 401 /\ ~response[r].success)

\* C4 (as claimed): naming a resume or job description of another user is
\* answered with 401.
C4_NotOwnedIs401 ==
    \A r \in Requests :
        (/\ Done(r) /\ Authenticated(r)
         /\ \/ /\ response[r].error = "Resume not found"
               /\ \E x \in resumes : /\ x.id = req[r].body.resumeId
                                     /\ x.user_id # req[r].principal
            \/ /\ response[r].error = "Job description not found"
               /\ \E x \in job_descriptions :
                     /\ x.id = req[r].body.jobDescriptionId
                     /\ x.user_id # req[r].principal)
        => response[r].status = 401

\* C5 (as claimed): with a valid credential, a missing id or an id that
\* matches no row is answered with a 4xx status.
C5_MissingIsClientError ==
    \A r \in Requests :
        (/\ Done(r) /\ Authenticated(r) /\ req[r].body.readable
         /\ \/ req[r].body.resumeId = NoId
            \/ req[r].body.jobDescriptionId = NoId
            \/ /\ response[r].error = "Resume not found"
               /\ ~\E x \in resumes : x.id = req[r].body.resumeId
            \/ /\ response[r].error = "Job description not found"
               /\ ~\E x \in job_descriptions :
                       x.id = req[r].body.jobDescriptionId)
        => response[r].status \in 400..499

\* C6 (as claimed): a successful request returns a report with a value in
\* each of the seven analysis fields, stored under the caller's id and the
\* two requested ids.
C6_AllSevenFields ==
    \A r \in Requests :
        Succeeded(r) =>
            /\ \A f \in AnalysisFields : response[r].analysis[f] # NULL
            /\ response[r].analysis.user_id = req[r].principal
            /\ response[r].analysis.resume_id = req[r].body.resumeId
            /\ response[r].analysis.job_description_id =
                   req[r].body.jobDescriptionId

\* the model's message content was not parseable as JSON
NotJson(r) ==
    local[r].analysisText # NULL /\ JSONParse(local[r].analysisText).threw

\* the last call was the insert of the report, and it failed
InsertFailed(r) ==
    /\ Len(effects[r]) > 0
    /\ effects[r][Len(effects[r])].call = "insert"
    /\ ~effects[r][Len(effects[r])].done

\* C7 (as claimed): when the model's content is not JSON the request does not
\* fail: it returns success with a report equal to the fallback payload.
C7_NotJsonNeverFails ==
    \A r \in Requests :
        (Done(r) /\ NotJson(r)) =>
            /\ response[r].success
            /\ AnalysisOf(response[r].analysis) = AnalysisColumns(FallbackAnalysis)

\* C7 (amended): when the model's content is not JSON the fallback payload
\* becomes the analysis result; the request then returns success with a
\* report equal to the fallback payload, unless the insert fails, and it
\* fails for no other reason.
C7_FallbackUnlessInsertFails ==
    \A r \in Requests :
        NotJson(r) =>
            /\ local[r].analysisResult = FallbackAnalysis
            /\ Done(r) =>
                  \/ /\ response[r].success
                     /\ AnalysisOf(response[r].analysis) =
                            AnalysisColumns(FallbackAnalysis)
                     /\ response[r].analysis.relevance_score = "75"
                  \/ /\ InsertFailed(r)
                     /\ response[r].error = "Failed to save analysis"

\* a prose answer of the model came back as a report with the fallback score
C7_Witness ==
    \E r \in Requests :
        /\ Succeeded(r)
        /\ local[r].analysisText = ProseAnswer
        /\ response[r].analysis.relevance_score = "75"
        /\ response[r].analysis \in analysis_reports

\* C8: every answer to a POST is a JSON body, and every failing answer
\* carries success false and a non-empty error message.
C8_FailuresAreJsonEnvelopes ==
    \A r \in Requests :
        /\ Done(r) => response[r].json
        /\ Failed(r) => /\ response[r].success = FALSE
                        /\ response[r].error \notin {NULL, ""}

\* an unreadable body was answered with the envelope
C8_Witness ==
    \E r \in Requests :
        /\ Failed(r)
        /\ Authenticated(r)
        /\ ~req[r].body.readable
        /\ response[r].json
        /\ response[r].error = "Unexpected end of JSON input"

\* C9: a non-success status of the external model, and a failed insert of
\* the report, are answered with status 500 and success false.
C9_ModelAndSaveFailuresAre500 ==
    \A r \in Requests :
        (Done(r) /\ (local[r].openAIResponse = "not ok" \/ InsertFailed(r))) =>
            (response[r].status = 500 /\ ~response[r].success)

\* the insert failed and the answer was a 500
C9_Witness ==
    \E r \in Requests :
        /\ Done(r)
        /\ InsertFailed(r)
        /\ response[r].status = 500
        /\ response[r].error = "Failed to save analysis"

\* C10: no step of a request changes resumes or job_descriptions; the step
\* that answers success adds exactly one row to analysis_reports, the row
\* it returns, and every other step leaves analysis_reports as it is.
C10_OneRowIffSuccess ==
    [][\A r \in Requests :
          pc'[r] # pc[r] =>
             /\ resumes' = resumes
             /\ job_descriptions' = job_descriptions
             /\ IF pc'[r] = "done" /\ response'[r].success
                THEN /\ response'[r].analysis \notin analysis_reports
                     /\ analysis_reports' =
                            analysis_reports \cup {response'[r].analysis}
                ELSE analysis_reports' = analysis_reports]_vars

\* a request answered success and its one report is stored
C10_Witness ==
    \E r \in Requests :
        /\ Succeeded(r)
        /\ response[r].analysis \in analysis_reports
        /\ Cardinality({i \in 1..Len(effects[r]) :
                           effects[r][i].call = "insert"}) = 1

\* the calls of request r before its i-th call
Before(r, i) == {effects[r][j] : j \in 1..(i - 1)}

\* a lookup in table t that found its row
Found(c, t) == c.call = "select" /\ c.table = t /\ c.owners # {}

\* C11: within a request the calls come in a fixed order: no table is read
\* before the credential was verified, job_descriptions is read only after
\* the resume was found, the external model is called only after both rows
\* were found, and the report is inserted only after the model answered.
C11_StepsInOrder ==
    \A r \in Requests : \A i \in 1..Len(effects[r]) :
        LET c == effects[r][i]
            before == Before(r, i)
        IN  /\ c.call \in {"select", "fetch", "insert"} =>
                  \E b \in before : b.call = "auth.getUser" /\ b.done
            /\ (c.call = "select" /\ c.table = "job_descriptions") =>
                  \E b \in before : Found(b, "resumes")
            /\ c.call = "fetch" =>
                  /\ \E b \in before : Found(b, "resumes")
                  /\ \E b \in before : Found(b, "job_descriptions")
            /\ c.call = "insert" =>
                  /\ \E b \in before : b.call = "fetch" /\ b.done
                  /\ local[r].openAIResponse = "completion"

\* a request went through all five calls
C11_Witness ==
    \E r \in Requests :
        /\ Succeeded(r)
        /\ [i \in 1..Len(effects[r]) |-> effects[r][i].call] =
              <<"auth.getUser", "select", "select", "fetch", "insert">>

\* C12: reports are created by the analysis endpoint only: where only clients
\* act on the data store, under the row-level policies, analysis_reports never
\* gets a row.
C12_ClientsAddNoReport == analysis_reports = {}

\* C13: every stored report references a resume and a job description that
\* exist: deleting a resume or a job description deletes its reports with it.
C13_ReportsHaveParents ==
    \A p \in analysis_reports : ForeignKeysHold(p, resumes, job_descriptions)

\* the endpoint stored a report, then the report's resume was deleted while its
\* job description stayed: the report is gone with the resume
C13_Witness ==
    \E r \in Requests :
        /\ Succeeded(r)
        /\ ~ \E x \in resumes : x.id = response[r].analysis.resume_id
        /\ \E j \in job_descriptions : j.id = response[r].analysis.job_description_id
        /\ response[r].analysis \notin analysis_reports

\* two requests of one user for the same resume and job description
SamePair(r, o) ==
    /\ r # o
    /\ req[r].principal = req[o].principal
    /\ req[r].body = req[o].body

\* C14: concurrent requests are not deduplicated and do not affect each
\* other: a request that succeeds adds its own new row and keeps every other
\* row, no step of one request changes the position, the locals or the
\* response of the other, and so two requests that both succeeded (also for
\* the same user, resume and job description) left two distinct stored rows.
C14_EachInsertsItsOwn ==
    [][\A r \in Requests :
          /\ (pc[r] = "save" /\ pc'[r] = "done" /\ response'[r].success) =>
                /\ response'[r].analysis \notin analysis_reports
                /\ analysis_reports' = analysis_reports \cup {response'[r].analysis}
          /\ pc'[r] # pc[r] =>
                \A o \in Requests \ {r} :
                    /\ pc'[o] = pc[o]
                    /\ local'[o] = local[o]
                    /\ response'[o] = response[o]
          /\ \A o \in Requests \ {r} :
                (Succeeded(r)' /\ Succeeded(o)') =>
                    /\ response'[r].analysis.id # response'[o].analysis.id
                    /\ {response'[r].analysis, response'[o].analysis}
                          \subseteq analysis_reports']_vars

\* both requests of one user for the same pair succeeded: two rows are stored
C14_Witness ==
    \E r, o \in Requests :
        /\ SamePair(r, o)
        /\ Succeeded(r) /\ Succeeded(o)
        /\ response[r].analysis # response[o].analysis
        /\ Cardinality({p \in analysis_reports :
                            /\ p.user_id = req[r].principal
                            /\ p.resume_id = req[r].body.resumeId
                            /\ p.job_description_id = req[r].body.jobDescriptionId}) = 2

\* the handler ran on this step, for a signed-in user who picked a file
Picked ==
    /\ upload.pc = "idle"
    /\ upload' # upload
    /\ upload.user # NULL
    /\ upload'.file # NoFile

\* C15: a file of a type other than PDF or DOCX, or of more than 5MB, is
\* rejected before any network call: the step issues no call, stores no
\* object and no row, leaves isUploading false and shows the rejection.
C15_RejectedBeforeAnyCall ==
    [][(/\ Picked
        /\ \/ upload'.file.type \notin {PDF, DOCX}
           \/ upload'.file.size > 5 * 1024 * 1024) =>
            /\ upload'.calls = <<>>
            /\ upload'.pc = "idle"
            /\ ~upload'.isUploading
            /\ upload'.toast \in {"Invalid File Type", "File Too Large"}
            /\ objects' = objects
            /\ resumes' = resumes]_vars

\* a picture was picked and turned down
C15_Witness ==
    /\ upload.user # NULL
    /\ upload.file # NoFile
    /\ upload.file.type \notin {PDF, DOCX}
    /\ upload.toast = "Invalid File Type"
    /\ upload.pc = "idle"
    /\ upload.calls = <<>>

RowsOfPath(rows, fileName) == {x \in rows : x.file_path = fileName}

\* C17: the object is stored before the row is inserted, and nothing is
\* undone: a failed upload inserts no row; a failed insert leaves the object
\* with no row pointing at it and issues no further call; both failures show
\* the error and end with isUploading false.
C17_FailuresLeaveNoRow ==
    [][/\ upload'.pc = "insert" => Object(upload'.fileName) \in objects'
       /\ (upload.pc = "upload" /\ upload'.pc = "idle") =>
             /\ resumes' = resumes
             /\ upload'.calls = <<"storage.upload">>
             /\ upload'.toast = "Upload Failed"
             /\ ~upload'.isUploading
       /\ (upload.pc = "insert" /\ upload'.pc = "idle" /\ resumes' = resumes) =>
             /\ objects' = objects
             /\ Object(upload.fileName) \in objects'
             /\ RowsOfPath(resumes', upload.fileName) = {}
             /\ upload'.calls = upload.calls
             /\ upload'.toast = "Upload Failed"
             /\ upload'.pc = "idle"
             /\ ~upload'.isUploading]_vars

\* the insert failed after the upload: the object is stored, no row has it
C17_Witness ==
    /\ upload.pc = "idle"
    /\ upload.calls = <<"storage.upload", "from.insert">>
    /\ upload.toast = "Upload Failed"
    /\ ~upload.isUploading
    /\ Object(upload.fileName) \in objects
    /\ RowsOfPath(resumes, upload.fileName) = {}

\* C18: a row the upload inserts has the uploader as user_id and the path
\* {user_id}/{timestamp}.{extension of the file} as file_path, and the object
\* of that name was stored before the row.
C18_RowPointsAtStoredObject ==
    [][\A row \in resumes' \ resumes :
          /\ row.user_id = upload.user
          /\ Len(row.file_path) = 2
          /\ row.file_path[1] = <<row.user_id>>
          /\ \E t \in 1..now :
                row.file_path[2] =
                    <<ToString(t), row.file_name[Len(row.file_name)]>>
          /\ Object(row.file_path) \in objects]_vars

\* an upload went through: the row and its object are stored
C18_Witness ==
    /\ upload.pc = "idle"
    /\ upload.toast = "Success"
    /\ \E row \in resumes :
          /\ row.file_path = upload.fileName
          /\ row.user_id = upload.user
          /\ Object(row.file_path) \in objects

\* C19: an object of the bucket is inserted, read, moved or removed by a
\* caller only when the first segment of its name is the caller's id.
C19_OwnFolderOnly ==
    \A n \in lastObjectOp.names :
        /\ Len(n) > 1
        /\ n[1] = <<lastObjectOp.actor>>

\* a user's remove named an object in another user's folder: it is still there
C19_Witness ==
    /\ lastObjectOp.cmd = "DELETE"
    /\ lastObjectOp.names = {}
    /\ Object(lastObjectOp.name) \in objects
    /\ lastObjectOp.name[1] # <<lastObjectOp.actor>>

\* the keyword groups in their order, and the answer of each
KeywordGroups ==
    <<[words |-> {Ats, Keywords}, answer |-> AtsAnswer],
      [words |-> {Summary, Objective}, answer |-> SummaryAnswer],
      [words |-> {Quantify, Metrics}, answer |-> MetricsAnswer],
      [words |-> {Format, Template}, answer |-> FormatAnswer]>>

\* the groups with a keyword somewhere in the text, whatever the case
Matching(text) ==
    {g \in 1..Len(KeywordGroups) :
        \E w \in KeywordGroups[g].words :
            \E i \in 0..(Len(text) - Len(w)) :
                \A k \in 1..Len(w) :
                    \/ text[i + k] = w[k]
                    \/ \E u \in 1..Len(UpperCase) :
                          text[i + k] = UpperCase[u] /\ w[k] = LowerCase[u]}

\* C20: the reply to a text is the answer of the first keyword group (ats or
\* keywords, summary or objective, quantify or metrics, format or template)
\* that has a keyword in the text, in any case, and the default answer when
\* none has; the same text gets the same reply every time.
C20_FirstMatchingGroup ==
    /\ \A i \in 2..Len(chat.messages) :
          chat.messages[i].role = "assistant" =>
              LET text == chat.messages[i - 1].content
                  m == Matching(text)
              IN  /\ chat.messages[i - 1].role = "user"
                  /\ chat.messages[i].content =
                        IF m = {} THEN DefaultAnswer
                        ELSE KeywordGroups[CHOOSE g \in m :
                                              \A h \in m : g <= h].answer
    /\ \A i, j \in 2..(Len(chat.messages) - 1) :
          (/\ chat.messages[i].role = "user"
           /\ chat.messages[j].role = "user"
           /\ chat.messages[i].content = chat.messages[j].content) =>
              chat.messages[i + 1].content = chat.messages[j + 1].content

\* a text with keywords of two groups, one in capitals, got the first answer
C20_Witness ==
    \E i \in 2..(Len(chat.messages) - 1), j \in 2..(Len(chat.messages) - 1) :
        /\ chat.messages[i].role = "user"
        /\ Cardinality(Matching(chat.messages[i].content)) > 1
        /\ chat.messages[i + 1].content = AtsAnswer
        /\ chat.messages[j].role = "user"
        /\ chat.messages[j].content = <<"M", "e", "t", "r", "i", "c", "s">>
        /\ chat.messages[j + 1].content = MetricsAnswer

\* C21: the fallback replaces the model's answer only when the parse throws:
\* an answer that parses, whether it lacks keys or is not an object at all,
\* stays as parsed, gets past the parse step, and its fields go to the insert
\* as they are, an absent key as a missing value.
C21_ParsedValuesReachInsert ==
    \A r \in Requests :
        (/\ Done(r)
         /\ local[r].openAIResponse = "completion"
         /\ ~JSONParse(local[r].analysisText).threw) =>
            /\ local[r].analysisResult = JSONParse(local[r].analysisText).value
            /\ \E i \in 1..Len(effects[r]) : effects[r][i].call = "insert"
            /\ Succeeded(r) =>
                  AnalysisOf(response[r].analysis) =
                      AnalysisColumns(JSONParse(local[r].analysisText).value)

\* C22: every stored report has the user_id of the resume and of the job
\* description it references, whatever the endpoint and the clients did.
C22_ReportOwnedLikeParents ==
    \A p \in analysis_reports :
        /\ \A x \in resumes : x.id = p.resume_id => x.user_id = p.user_id
        /\ \A j \in job_descriptions :
              j.id = p.job_description_id => j.user_id = p.user_id

\* C23: a request whose resume or job description was deleted after the
\* lookups found them answers success:false at the insert and stores nothing,
\* and the step leaves no report that names a missing parent.
C23_DeletedParentFailsRequest ==
    [][\A r \in Requests :
          (/\ pc[r] = "save"
           /\ pc'[r] = "done"
           /\ \/ ~ \E x \in resumes : x.id = req[r].body.resumeId
              \/ ~ \E j \in job_descriptions : j.id = req[r].body.jobDescriptionId) =>
              /\ ~response'[r].success
              /\ response'[r].status = 500
              /\ analysis_reports' = analysis_reports
              /\ \A p \in analysis_reports' :
                    /\ \E x \in resumes' : x.id = p.resume_id
                    /\ \E j \in job_descriptions' : j.id = p.job_description_id]_vars

\* both lookups found their row, both rows were deleted before the insert,
\* and the request failed at the insert
C23_Witness ==
    \E r \in Requests :
        /\ Failed(r)
        /\ response[r].error = "Failed to save analysis"
        /\ \E i, j \in 1..Len(effects[r]) :
              /\ Found(effects[r][i], "resumes")
              /\ Found(effects[r][j], "job_descriptions")
        /\ LET last == effects[r][Len(effects[r])]
           IN  last.call = "insert" /\ ~last.done /\ last.owners = {}

\* C24: isAnalyzing is true exactly while an invocation of the endpoint is
\* outstanding, and the page never has two outstanding at once.
C24_AnalyzingIffOutstanding ==
    /\ analysisPage.outstanding \in {0, 1}
    /\ analysisPage.isAnalyzing <=> analysisPage.outstanding = 1

\* a second analysis is running after the first one returned
C24_Witness ==
    /\ analysisPage.isAnalyzing
    /\ analysisPage.outstanding = 1
    /\ analysisPage.invoked = 2

\* C25: the result shown never belongs to an earlier run: it is null while a
\* run is outstanding and after a run that failed or returned no analysis,
\* and a result that is shown is the report of the last run started.
C25_ResultOfLastRun ==
    /\ analysisPage.isAnalyzing => analysisPage.result = NoRow
    /\ analysisPage.result # NoRow =>
          /\ analysisPage.result.id = analysisPage.invoked
          /\ analysisPage.toast \in {"Analysis complete", "Select items"}
    /\ analysisPage.toast \in {"Analysis failed", "Unexpected response"} =>
          analysisPage.result = NoRow

\* a run succeeded, and the next run has started with the result cleared
C25_Witness ==
    /\ analysisPage.invoked = 2
    /\ analysisPage.isAnalyzing
    /\ analysisPage.toast = "Analysis complete"
    /\ analysisPage.result = NoRow

\* C26: a click with the resume or the job description not selected invokes
\* nothing: it shows the 'select items' message and leaves isAnalyzing and
\* result as they were.
C26_NothingWithoutSelection ==
    [][(/\ analysisPage' # analysisPage
        /\ analysisPage'.resumes = analysisPage.resumes
        /\ analysisPage'.jobs = analysisPage.jobs
        /\ analysisPage'.selectedResume = analysisPage.selectedResume
        /\ analysisPage'.selectedJob = analysisPage.selectedJob
        /\ analysisPage.outstanding = 0
        /\ \/ analysisPage.selectedResume = ""
           \/ analysisPage.selectedJob = "") =>
            /\ analysisPage'.toast = "Select items"
            /\ analysisPage'.invoked = analysisPage.invoked
            /\ analysisPage'.outstanding = 0
            /\ analysisPage'.isAnalyzing = analysisPage.isAnalyzing
            /\ analysisPage'.result = analysisPage.result]_vars

\* a click with a resume but no job description selected: only the message
C26_Witness ==
    /\ analysisPage.toast = "Select items"
    /\ analysisPage.selectedResume # ""
    /\ analysisPage.selectedJob = ""
    /\ analysisPage.invoked = 0
    /\ ~analysisPage.isAnalyzing

\* C27: a protected page that sees auth loading finished with no user has
\* navigated to /auth, renders nothing and queries nothing; and whatever the
\* page, its effects query the data store only when a user is present.
C27_NoUserNoPage ==
    /\ (site.page # NULL /\ ~site.loading /\ site.user = NULL) =>
          /\ site.route = "/auth"
          /\ site.content = "null"
          /\ site.queries = {}
    /\ site.queries # {} => site.user # NULL

\* the user of a page that had loaded its rows signed out: off to /auth
C27_Witness ==
    /\ site.page \in Pages
    /\ ~site.loading
    /\ site.user = NULL
    /\ site.issued # {}
    /\ site.queries = {}
    /\ site.route = "/auth"

\* text is input without the spaces at its two ends, and is not empty
TrimmedFrom(text, input) ==
    /\ text # <<>>
    /\ text[1] # " "
    /\ text[Len(text)] # " "
    /\ \E i \in 1..Len(input) :
          /\ i + Len(text) - 1 <= Len(input)
          /\ text = SubSeq(input, i, i + Len(text) - 1)
          /\ \A k \in 1..Len(input) :
                (k < i \/ k > i + Len(text) - 1) => input[k] = " "

\* C28: the message list starts with the welcome message and only grows, by
\* one user message with the trimmed input followed by one assistant message
\* per send of a text that is not blank; a blank input adds nothing;
\* isThinking is false after every step, and no step of the chat touches the
\* data store, the bucket or the endpoint.
C28_AppendOnlyChat ==
    [][LET old == chat.messages
           new == chat'.messages
           n == Len(old)
       IN  /\ new[1] = Message("welcome", "assistant", WelcomeText)
           /\ ~chat'.isThinking
           /\ (\A k \in 1..Len(chat.input) : chat.input[k] = " ") => new = old
           /\ new # old =>
                 /\ Len(new) = n + 2
                 /\ SubSeq(new, 1, n) = old
                 /\ new[n + 1].role = "user"
                 /\ TrimmedFrom(new[n + 1].content, chat.input)
                 /\ new[n + 2].role = "assistant"
                 /\ chat'.input = <<>>
           /\ <<resumes, job_descriptions, analysis_reports, objects, effects>>' =
                 <<resumes, job_descriptions, analysis_reports, objects, effects>>]_vars

\* " ATS " was sent: the message has the text without the spaces, then the answer
C28_Witness ==
    /\ Len(chat.messages) = 3
    /\ chat.messages[2] = Message("2", "user", <<"A", "T", "S">>)
    /\ chat.messages[3].role = "assistant"
    /\ chat.input = <<>>
    /\ ~chat.isThinking

\* C29: saveItem inserts a row only for a signed-in user and a form with
\* title and description; the row has the user's id and the values of the
\* form, an empty company or requirements as null; the form is emptied and
\* the list reloaded only after the insert succeeded, a failed insert leaves
\* the form as it is, and isSaving is false after every outcome.
C29_SaveItem ==
    [][/\ \A row \in job_descriptions' \ job_descriptions :
             /\ jobsPage.user # NULL
             /\ row.user_id = jobsPage.user
             /\ row.title # "" /\ row.description # ""
             /\ row.title = jobsPage.submitted.title
             /\ row.description = jobsPage.submitted.description
             /\ row.company = IF jobsPage.submitted.company = "" THEN NULL
                              ELSE jobsPage.submitted.company
             /\ row.requirements = IF jobsPage.submitted.requirements = "" THEN NULL
                                   ELSE jobsPage.submitted.requirements
             /\ jobsPage'.form = EmptyForm
             /\ jobsPage'.calls = <<"from.insert", "from.select">>
       /\ (jobsPage.pc = "idle" /\ jobsPage'.pc = "insert") =>
             /\ jobsPage.user # NULL
             /\ jobsPage.form.title # "" /\ jobsPage.form.description # ""
             /\ jobsPage'.submitted = jobsPage.form
       /\ (jobsPage.pc = "insert" /\ jobsPage'.pc = "idle"
              /\ job_descriptions' = job_descriptions) =>
             /\ jobsPage'.form = jobsPage.form
             /\ jobsPage'.calls = <<"from.insert">>
             /\ jobsPage'.toast = "Save failed"
       /\ jobsPage'.pc = "idle" => ~jobsPage'.isSaving]_vars

\* a form with no company was saved: the row has null there, the form is empty
C29_Witness ==
    /\ jobsPage.pc = "idle"
    /\ jobsPage.toast = "Saved"
    /\ jobsPage.form = EmptyForm
    /\ ~jobsPage.isSaving
    /\ \E row \in job_descriptions :
          /\ row.user_id = jobsPage.user
          /\ row.company = NULL
          /\ row.title = jobsPage.submitted.title

\* C30: two uploads of one user never have the same storage path, also when
\* both files have the same extension and both uploads start in the same
\* millisecond in two tabs: the path this tab made for its upload is not the
\* path of the other tab's last upload.
C30_PathsDistinct ==
    (/\ upload.fileName # <<>>
     /\ lastObjectOp.cmd = "INSERT"
     /\ lastObjectOp.actor = upload.user) =>
        lastObjectOp.name # upload.fileName

====
